---- MODULE Spec2Model ----
(***************************************************************************)
(* Model of the quick-API update compiler (quickApiUpdateHandler and its   *)
(* helpers validateUpdateFields, updateExpressionBuilder, validateConfig,  *)
(* includeFieldInAction, clearRequestFieldFromAllActions).                 *)
(*                                                                         *)
(* Source names are kept: the four buckets are called set / remove / add / *)
(* append in the code (assign / remove / increment / append in the prose). *)
(***************************************************************************)
EXTENDS Integers, Sequences, FiniteSets, TLC

VARIABLES
    config,       \* the policy object passed by reference (may be mutated)
    updateList,   \* the batch of requests (mutated in place by auto-fields)
    updateItems,  \* the local list of descriptors built by the loop
    idx,          \* position of the for-of loop in updateList (next item)
    pc,           \* position in quickApiUpdateHandler
    outcome,      \* "running" | "returned" | "thrown"
    returned,     \* the value returned to the caller (<<>> until a return)
    error,        \* the error thrown to the caller (NoError until a throw)
    logged,       \* errors passed to logger.error, in order
    itemErr,      \* outcome of each loop iteration so far (NoError = pushed)
    config0,      \* the policy object as the caller passed it
    updateList0,  \* the batch as the caller passed it
    call,         \* 1 in the first call; 2 once the caller has called again
    first,        \* what the first call left behind (for a second call)
    \* the feature-flags PUT handler
    flagRecord,   \* the item config / featureFlags of the reference-data table
    flagRecord0,  \* that item before any invocation
    inv,          \* the invocations of the handler: position and locals of each
    puts,         \* the versions stored by putItem, in the order of the writes
    \* the stream handler
    Records,      \* event.Records
    rIdx,         \* position of the for-of loop in Records (next record)
    upsertDocs,   \* documents to upsert, in push order
    deleteDocs,   \* documents to delete, in push order
    auditRecordsToCreate,
    index,        \* the search index: the documents it holds
    index0,       \* the search index before the invocation
    auditTable,   \* the audit records written
    spc           \* position in the stream handler

flagVars == <<flagRecord, flagRecord0, inv, puts>>
streamVars == <<Records, rIdx, upsertDocs, deleteDocs, auditRecordsToCreate,
                index, index0, auditTable, spc>>
handlerVars == <<config, updateList, updateItems, idx, pc, outcome, returned, error,
                 logged, itemErr, config0, updateList0, call, first>>

vars == <<handlerVars, flagVars, streamVars>>

-----------------------------------------------------------------------------
(* Bounds of the model *)

MaxBatch == 3      \* longest batch of curated requests
MaxEntries == 2    \* most bucket entries in a generated single request

-----------------------------------------------------------------------------
(* JavaScript values (JSON domain), tagged *)

Num(n)  == [t |-> "N",    n |-> n, s |-> "", l |-> <<>>]
Str(s)  == [t |-> "S",    n |-> 0, s |-> s,  l |-> <<>>]
Bool(b) == [t |-> "BOOL", n |-> IF b THEN 1 ELSE 0, s |-> "", l |-> <<>>]
Null    == [t |-> "NULL", n |-> 0, s |-> "", l |-> <<>>]
List(l) == [t |-> "L",    n |-> 0, s |-> "", l |-> l]   \* a sequence of numbers
EmptyMap == [t |-> "M",   n |-> 0, s |-> "", l |-> <<>>] \* the mapping {}

\* The numeric strings of the model and the numbers they parse to.
NumericStrings == {"", "0", "5"}
StringToNumber(s) == CASE s = "" -> 0 [] s = "0" -> 0 [] s = "5" -> 5

\* JavaScript ToNumber: [nan |-> TRUE] stands for NaN.
ToNumber(v) ==
    CASE v.t = "N"    -> [nan |-> FALSE, n |-> v.n]
      [] v.t = "S"    -> IF v.s \in NumericStrings
                         THEN [nan |-> FALSE, n |-> StringToNumber(v.s)]
                         ELSE [nan |-> TRUE, n |-> 0]
      [] v.t = "BOOL" -> [nan |-> FALSE, n |-> v.n]
      [] v.t = "NULL" -> [nan |-> FALSE, n |-> 0]
      [] v.t = "L"    -> IF Len(v.l) = 0 THEN [nan |-> FALSE, n |-> 0]
                         ELSE IF Len(v.l) = 1 THEN [nan |-> FALSE, n |-> v.l[1]]
                         ELSE [nan |-> TRUE, n |-> 0]
      [] v.t = "M"    -> [nan |-> TRUE, n |-> 0]

\* The global isNaN(v): coerces with ToNumber first.
isNaN(v) == ToNumber(v).nan

\* Mutant: anything with a length (a sequence or a string) counts as a sequence.
isArray_HasLength(v) == v.t \in {"L", "S"}

\* Array.isArray(v)
isArray(v) == v.t = "L"

\* The comparison  v > 0  of JavaScript (NaN compares false).
GreaterThanZero(v) == ~ToNumber(v).nan /\ ToNumber(v).n > 0

-----------------------------------------------------------------------------
(* Requests *)

Actions == <<"set", "remove", "add", "append">>

\* A mapping bucket keeps its keys in insertion order (Object.keys order).
AbsentBucket == [present |-> FALSE, kv |-> <<>>]
Bucket(kv)   == [present |-> TRUE, kv |-> kv]
AbsentRemove == [present |-> FALSE, l |-> <<>>]
Remove(l)    == [present |-> TRUE, l |-> l]

NoKey == [present |-> FALSE, pk |-> "", sk |-> ""]
Key(pk, sk) == [present |-> TRUE, pk |-> pk, sk |-> sk]

NullRequest ==
    [isNull |-> TRUE, key |-> NoKey, set |-> AbsentBucket,
     remove |-> AbsentRemove, add |-> AbsentBucket, append |-> AbsentBucket]

Request(key, set, remove, add, append) ==
    [isNull |-> FALSE, key |-> key, set |-> set, remove |-> remove,
     add |-> add, append |-> append]

\* Object.keys(bucket)
Keys(b) == [i \in 1..Len(b.kv) |-> b.kv[i].f]

HasField(b, f) == \E i \in 1..Len(b.kv) : b.kv[i].f = f

\* bucket[f] for a field the bucket has
Lookup(b, f) == b.kv[CHOOSE i \in 1..Len(b.kv) : b.kv[i].f = f].v

SeqToSet(s) == {s[i] : i \in 1..Len(s)}

-----------------------------------------------------------------------------
(* Policy configuration *)

NoRule == [present |-> FALSE, allowAll |-> FALSE,
           hasWhitelist |-> FALSE, whitelist |-> <<>>,
           hasBlacklist |-> FALSE, blacklist |-> <<>>,
           hasMandatory |-> FALSE, mandatoryFields |-> <<>>]

AllowAll == [NoRule EXCEPT !.present = TRUE, !.allowAll = TRUE]

\* A present rule with allowAll absent or false and nothing else.
BareRule == [NoRule EXCEPT !.present = TRUE]

WithWhitelist(r, w) == [r EXCEPT !.present = TRUE, !.hasWhitelist = TRUE, !.whitelist = w]
WithBlacklist(r, b) == [r EXCEPT !.present = TRUE, !.hasBlacklist = TRUE, !.blacklist = b]
WithMandatory(r, m) == [r EXCEPT !.present = TRUE, !.hasMandatory = TRUE, !.mandatoryFields = m]

Rules(set, remove, add, append) ==
    [set |-> set, remove |-> remove, add |-> add, append |-> append]

Config(hasRules, rules, autoTimestamp, autoVersion, failOnError) ==
    [hasRules |-> hasRules, actionRules |-> rules,
     autoTimestamp |-> autoTimestamp, autoVersion |-> autoVersion,
     failOnError |-> failOnError]

-----------------------------------------------------------------------------
(* Errors (the Exception thrown, by kind; TypeError is the runtime's) *)

NoError == [kind |-> "none", action |-> "", field |-> ""]
Err(kind, action, field) == [kind |-> kind, action |-> action, field |-> field]

\* Mutant: only the policy object itself is checked, not its actionRules.
validateConfig_ObjectOnly(cfg) == NoError

validateConfig(cfg) ==
    IF ~cfg.hasRules THEN Err("ConfigurationError", "", "") ELSE NoError

-----------------------------------------------------------------------------
(* Auto-field injection *)

\* Mutant: the delete is skipped.
DeleteField_Skipped(b, f) == b

DeleteField(b, f) ==
    IF b.present THEN [b EXCEPT !.kv = SelectSeq(b.kv, LAMBDA e : e.f # f)] ELSE b

\* Mutant: the field is deleted from set / add / append but left in remove.
clearRequestFieldFromAllActions_KeepsRemove(field, request) ==
    IF request.isNull
    THEN [ok |-> FALSE, request |-> request]
    ELSE [ok |-> TRUE,
          request |-> [request EXCEPT
              !.set = DeleteField(request.set, field),
              !.add = DeleteField(request.add, field),
              !.append = DeleteField(request.append, field)]]

\* Dereferencing a null request throws TypeError: ok = FALSE.
clearRequestFieldFromAllActions(field, request) ==
    IF request.isNull
    THEN [ok |-> FALSE, request |-> request]
    ELSE [ok |-> TRUE,
          request |-> [request EXCEPT
              !.set = DeleteField(request.set, field),
              !.add = DeleteField(request.add, field),
              !.append = DeleteField(request.append, field),
              !.remove = IF request.remove.present
                         THEN Remove(SelectSeq(request.remove.l, LAMBDA f : f # field))
                         ELSE request.remove]]

\* request[action][field] = value : replaces in place or appends the key.
AssignField(b, f, v) ==
    LET kv == IF b.present THEN b.kv ELSE <<>>
    IN  IF \E i \in 1..Len(kv) : kv[i].f = f
        THEN Bucket([i \in 1..Len(kv) |->
                        IF kv[i].f = f THEN [f |-> f, v |-> v] ELSE kv[i]])
        ELSE Bucket(Append(kv, [f |-> f, v |-> v]))

includeFieldInAction(field, value, action, request, cfg) ==
    [request |-> [request EXCEPT ![action] = AssignField(request[action], field, value)],
     config  |-> IF cfg.hasRules /\ cfg.actionRules[action].present
                    /\ cfg.actionRules[action].hasWhitelist
                 THEN [cfg EXCEPT !.actionRules[action].whitelist = Append(@, field)]
                 ELSE cfg]

\* Mutant: the field is not cleared first, and a number already in the bucket
\* is bumped by the value instead of being replaced.
RECURSIVE AutoField_Accumulates(_, _, _, _, _, _)
AutoField_Accumulates(list, cfg, i, field, value, action) ==
    IF i > Len(list)
    THEN [threw |-> FALSE, list |-> list, config |-> cfg]
    ELSE IF list[i].isNull
         THEN [threw |-> TRUE, list |-> list, config |-> cfg]
         ELSE LET b   == list[i][action]
                  v   == IF value.t = "N" /\ HasField(b, field) /\ Lookup(b, field).t = "N"
                         THEN Num(Lookup(b, field).n + value.n)
                         ELSE value
                  inc == includeFieldInAction(field, v, action, list[i], cfg)
              IN  AutoField_Accumulates([list EXCEPT ![i] = inc.request], inc.config,
                                        i + 1, field, value, action)

\* updateList.map(item => { clear(field, item); include(field, value, action, item, config) })
\* from position i on; a throw leaves the earlier items and the policy mutated.
RECURSIVE AutoField(_, _, _, _, _, _)
AutoField(list, cfg, i, field, value, action) ==
    IF i > Len(list)
    THEN [threw |-> FALSE, list |-> list, config |-> cfg]
    ELSE LET c == clearRequestFieldFromAllActions(field, list[i])
         IN  IF ~c.ok
             THEN [threw |-> TRUE, list |-> list, config |-> cfg]
             ELSE LET inc == includeFieldInAction(field, value, action, c.request, cfg)
                  IN  AutoField([list EXCEPT ![i] = inc.request], inc.config,
                                i + 1, field, value, action)

-----------------------------------------------------------------------------
(* validateUpdateFields *)

\* item?.set ? Object.keys(item.set) : [] and so on
AllFields(item) ==
    [set    |-> IF item.set.present THEN Keys(item.set) ELSE <<>>,
     remove |-> IF item.remove.present THEN item.remove.l ELSE <<>>,
     add    |-> IF item.add.present THEN Keys(item.add) ELSE <<>>,
     append |-> IF item.append.present THEN Keys(item.append) ELSE <<>>]

\* item[action]?.length > 0 : the array length for remove; for a mapping the
\* value of its own "length" entry, if any (undefined > 0 is false).
LengthPositive(item, action) ==
    IF action = "remove"
    THEN Len(item.remove.l) > 0
    ELSE HasField(item[action], "length")
         /\ GreaterThanZero(Lookup(item[action], "length"))

FirstNotIn(fields, list) ==
    LET bad == {i \in 1..Len(fields) : fields[i] \notin SeqToSet(list)}
    IN  IF bad = {} THEN 0 ELSE CHOOSE i \in bad : \A j \in bad : i <= j

FirstIn(fields, list) ==
    LET bad == {i \in 1..Len(fields) : fields[i] \in SeqToSet(list)}
    IN  IF bad = {} THEN 0 ELSE CHOOSE i \in bad : \A j \in bad : i <= j

\* Mutant: allowAll does not skip the blacklist.
ActionCheck_AllowAllKeepsBlacklist(action, allFields, item, cfg) ==
    IF ~item[action].present THEN NoError
    ELSE LET actionRules == cfg.actionRules[action] IN
      IF ~actionRules.present \/ actionRules.allowAll # TRUE
      THEN IF LengthPositive(item, action)
           THEN Err("ActionNotPermitted", action, "")
           ELSE NoError
      ELSE LET b == IF actionRules.hasBlacklist
                    THEN FirstIn(allFields[action], actionRules.blacklist) ELSE 0
           IN  IF b # 0 THEN Err("FieldBlacklisted", action, allFields[action][b])
               ELSE NoError

\* The body of the per-action loop for one action: the error it throws, or
\* NoError when it continues to the next action.
ActionCheck(action, allFields, item, cfg) ==
    IF ~item[action].present THEN NoError
    ELSE LET actionRules == cfg.actionRules[action] IN
      IF ~actionRules.present \/ actionRules.allowAll # TRUE
      THEN IF LengthPositive(item, action)
           THEN Err("ActionNotPermitted", action, "")
           ELSE NoError
      ELSE IF actionRules.allowAll THEN NoError
      ELSE LET w == IF actionRules.hasWhitelist
                    THEN FirstNotIn(allFields[action], actionRules.whitelist) ELSE 0
               b == IF actionRules.hasBlacklist
                    THEN FirstIn(allFields[action], actionRules.blacklist) ELSE 0
           IN  IF w # 0 THEN Err("FieldNotWhitelisted", action, allFields[action][w])
               ELSE IF b # 0 THEN Err("FieldBlacklisted", action, allFields[action][b])
               \* actionRules[action] is undefined: reading .mandatoryFields of it throws
               ELSE IF actionRules.hasMandatory THEN Err("TypeError", action, "")
               ELSE NoError

\* Mutant: the remove list is left out of the combined field list.
FieldsList_WithoutRemove(allFields) ==
    allFields.set \o allFields.add \o allFields.append

FieldsList(allFields) ==
    allFields.set \o allFields.remove \o allFields.add \o allFields.append

\* Position of the first field already seen earlier in the list, or 0.
FirstDuplicate(fieldsList) ==
    LET dup == {j \in 1..Len(fieldsList) : \E i \in 1..(j - 1) : fieldsList[i] = fieldsList[j]}
    IN  IF dup = {} THEN 0 ELSE CHOOSE j \in dup : \A k \in dup : j <= k

AddTypeCheck(allFields, item) ==
    LET bad == {i \in 1..Len(allFields.add) : isNaN(Lookup(item.add, allFields.add[i]))}
    IN  IF bad = {} THEN NoError
        ELSE Err("InvalidIncrementType", "add",
                 allFields.add[CHOOSE i \in bad : \A j \in bad : i <= j])

AppendTypeCheck(allFields, item) ==
    LET bad == {i \in 1..Len(allFields.append) :
                    ~isArray(Lookup(item.append, allFields.append[i]))}
    IN  IF bad = {} THEN NoError
        ELSE Err("InvalidAppendType", "append",
                 allFields.append[CHOOSE i \in bad : \A j \in bad : i <= j])

\* The per-action loop: the error of the first action (in the order set,
\* remove, add, append) whose check throws.
PolicyStep(allFields, item, cfg) ==
    LET bad == {k \in 1..Len(Actions) : ActionCheck(Actions[k], allFields, item, cfg) # NoError}
    IN  IF bad = {} THEN NoError
        ELSE ActionCheck(Actions[CHOOSE k \in bad : \A j \in bad : k <= j], allFields, item, cfg)

DuplicateCheck(allFields) ==
    LET d == FirstDuplicate(FieldsList(allFields))
    IN  IF d = 0 THEN NoError ELSE Err("DuplicateField", "", FieldsList(allFields)[d])

validateUpdateFields(allFields, item, cfg) ==
    IF PolicyStep(allFields, item, cfg) # NoError THEN PolicyStep(allFields, item, cfg)
    ELSE IF DuplicateCheck(allFields) # NoError THEN DuplicateCheck(allFields)
    ELSE IF AddTypeCheck(allFields, item) # NoError THEN AddTypeCheck(allFields, item)
    ELSE AppendTypeCheck(allFields, item)

-----------------------------------------------------------------------------
(* marshall: the store's wire encoding *)

Wire(tag, s, l) == [tag |-> tag, s |-> s, l |-> l]

\* marshall(value, {convertTopLevelContainer}) : numbers travel as strings;
\* a top-level list or mapping is unwrapped unless convertTopLevelContainer.
marshall(v, convertTopLevelContainer) ==
    CASE v.t = "N"    -> Wire("N", ToString(v.n), <<>>)
      [] v.t = "S"    -> Wire("S", v.s, <<>>)
      [] v.t = "BOOL" -> Wire("BOOL", IF v.n = 1 THEN "true" ELSE "false", <<>>)
      [] v.t = "NULL" -> Wire("NULL", "true", <<>>)
      [] v.t = "L"    -> Wire(IF convertTopLevelContainer THEN "L" ELSE "unwrappedL", "",
                              [i \in 1..Len(v.l) |-> ToString(v.l[i])])
      [] v.t = "M"    -> Wire(IF convertTopLevelContainer THEN "M" ELSE "unwrappedM", "", <<>>)

\* marshall(item.key)
marshallKey(key) == [pk |-> Wire("S", key.pk, <<>>), sk |-> Wire("S", key.sk, <<>>)]

-----------------------------------------------------------------------------
(* updateExpressionBuilder *)

RECURSIVE Join(_, _)
Join(strs, sep) ==
    IF Len(strs) = 0 THEN ""
    ELSE IF Len(strs) = 1 THEN strs[1]
    ELSE strs[1] \o sep \o Join(Tail(strs), sep)

setClause(field) == " #" \o field \o " = :" \o field
addClause(field) ==
    " #" \o field \o " = if_not_exists(#" \o field \o ", :add__start__value) + :" \o field
appendClause(field) ==
    " #" \o field \o " = list_append(if_not_exists(#" \o field
        \o ", :append__start__value), :" \o field \o ")"
removeClause(field) == " #" \o field

\* The object { prefix+fields[i] : vals[i] } built for the fields of one bucket.
Placeholders(fields, prefix, vals) ==
    [k \in {prefix \o fields[i] : i \in 1..Len(fields)} |->
        vals[CHOOSE i \in 1..Len(fields) : prefix \o fields[i] = k]]

\* Mutant: the empty portions are not filtered out before joining.
NonEmpty_KeepsAll(strs) == strs

NonEmpty(strs) == SelectSeq(strs, LAMBDA e : Len(e) > 0)

updateExpressionBuilder(allFields, item) ==
    LET setExpPortion    == Join([i \in 1..Len(allFields.set) |-> setClause(allFields.set[i])], ",")
        addExpPortion    == Join([i \in 1..Len(allFields.add) |-> addClause(allFields.add[i])], ",")
        appendExpPortion == Join([i \in 1..Len(allFields.append) |-> appendClause(allFields.append[i])], ",")
        setExpression ==
            IF Len(allFields.set) > 0 \/ Len(allFields.add) > 0 \/ Len(allFields.append) > 0
            THEN "SET" \o Join(NonEmpty(<<setExpPortion, addExpPortion, appendExpPortion>>), ",")
            ELSE ""
        addExpression == ""
        removeExpression ==
            IF Len(allFields.remove) > 0
            THEN "REMOVE" \o Join([i \in 1..Len(allFields.remove) |-> removeClause(allFields.remove[i])], ",")
            ELSE ""
        setNames == Placeholders(allFields.append, "#", allFields.append)
                    @@ Placeholders(allFields.add, "#", allFields.add)
                    @@ Placeholders(allFields.set, "#", allFields.set)
        removeNames == Placeholders(allFields.remove, "#", allFields.remove)
        setVals == [i \in 1..Len(allFields.set) |->
                        marshall(Lookup(item.set, allFields.set[i]), TRUE)]
        addVals == [i \in 1..Len(allFields.add) |->
                        marshall(Lookup(item.add, allFields.add[i]), FALSE)]
        appendVals == [i \in 1..Len(allFields.append) |->
                        marshall(Lookup(item.append, allFields.append[i]), TRUE)]
        \* later assignments to the same placeholder win
        setValues ==
            Placeholders(allFields.append, ":", appendVals)
            @@ (IF Len(allFields.append) > 0
                THEN (":append__start__value" :> Wire("L", "", <<>>)) ELSE <<>>)
            @@ Placeholders(allFields.add, ":", addVals)
            @@ (IF Len(allFields.add) > 0
                THEN (":add__start__value" :> marshall(Num(0), FALSE)) ELSE <<>>)
            @@ Placeholders(allFields.set, ":", setVals)
    IN  [updateExpression |-> Join(NonEmpty(<<setExpression, addExpression, removeExpression>>), " "),
         expressionAttributeNames |-> removeNames @@ setNames,
         expressionAttributeValues |-> setValues]

-----------------------------------------------------------------------------
(* quickApiUpdateHandler *)

tableName == "table"
now == "2024-01-01T00:00:00.000Z"     \* getNowISO()

\* Mutant: only the pk part of the key is looked at.
MalformedKey_PkOnly(item) ==
    item.isNull \/ ~item.key.present \/ item.key.pk = ""

\* !key || !key?.pk || !key?.sk   (a missing or empty part is falsy)
MalformedKey(item) ==
    item.isNull \/ ~item.key.present \/ item.key.pk = "" \/ item.key.sk = ""

NoDescriptor == [action |-> "none"]

\* Mutant: the descriptor is built without the existence precondition.
UpdateObj_Unconditional(item) ==
    LET e == updateExpressionBuilder(AllFields(item), item)
    IN  [action |-> "Update",
         data |-> [TableName |-> tableName,
                   Key |-> marshallKey(item.key),
                   UpdateExpression |-> e.updateExpression,
                   ExpressionAttributeNames |-> e.expressionAttributeNames,
                   ExpressionAttributeValues |-> e.expressionAttributeValues,
                   ConditionExpression |-> ""]]

UpdateObj(item) ==
    LET e == updateExpressionBuilder(AllFields(item), item)
    IN  [action |-> "Update",
         data |-> [TableName |-> tableName,
                   Key |-> marshallKey(item.key),
                   UpdateExpression |-> e.updateExpression,
                   ExpressionAttributeNames |-> e.expressionAttributeNames,
                   ExpressionAttributeValues |-> e.expressionAttributeValues,
                   ConditionExpression |-> "attribute_exists(pk)"]]

\* Mutant: a request without any field is rejected.
ItemError_RejectsEmpty(item, cfg) ==
    IF MalformedKey(item) THEN Err("MalformedKey", "", "")
    ELSE IF FieldsList(AllFields(item)) = <<>> THEN Err("EmptyUpdate", "", "")
    ELSE validateUpdateFields(AllFields(item), item, cfg)

\* The body of the inner try for one item: the error thrown, or NoError.
ItemError(item, cfg) ==
    IF MalformedKey(item) THEN Err("MalformedKey", "", "")
    ELSE validateUpdateFields(AllFields(item), item, cfg)

\* catch (error) { if (config?.failOnError) throw error; logger.error(error) }
Rethrows(cfg) == cfg.failOnError

Throw(e) ==
    /\ outcome' = "thrown"
    /\ error' = e
    /\ pc' = "done"

ValidateConfigStep ==
    /\ pc = "validateConfig"
    /\ IF validateConfig(config) # NoError
       THEN Throw(validateConfig(config))
       ELSE pc' = "autoTimestamp" /\ UNCHANGED <<outcome, error>>
    /\ UNCHANGED <<config, updateList, updateItems, idx, returned, logged,
                   itemErr, config0, updateList0, call, first, flagVars, streamVars>>

AutoStep(from, to, enabled, field, value, action) ==
    /\ pc = from
    /\ IF enabled
       THEN LET r == AutoField(updateList, config, 1, field, value, action)
            IN  /\ updateList' = r.list
                /\ config' = r.config
                /\ IF r.threw
                   THEN Throw(Err("TypeError", "", ""))
                   ELSE pc' = to /\ UNCHANGED <<outcome, error>>
       ELSE pc' = to /\ UNCHANGED <<config, updateList, outcome, error>>
    /\ UNCHANGED <<updateItems, idx, returned, logged, itemErr, config0, updateList0, call, first, flagVars, streamVars>>

\* Mutant: the autoTimestamp flag is not consulted.
AutoTimestampStep_Unguarded ==
    AutoStep("autoTimestamp", "autoVersion", TRUE, "lastUpdated", Str(now), "set")

AutoTimestampStep ==
    AutoStep("autoTimestamp", "autoVersion", config.autoTimestamp,
             "lastUpdated", Str(now), "set")

AutoVersionStep ==
    AutoStep("autoVersion", "loop", config.autoVersion, "version", Num(1), "add")

LoopStep ==
    /\ pc = "loop"
    /\ idx <= Len(updateList)
    /\ LET item == updateList[idx]
           e == ItemError(item, config)
       IN  /\ itemErr' = Append(itemErr, e)
           /\ IF e = NoError
              THEN /\ updateItems' = Append(updateItems, UpdateObj(item))
                   /\ idx' = idx + 1
                   /\ UNCHANGED <<pc, outcome, error, logged>>
              ELSE IF Rethrows(config)
              THEN /\ Throw(e)
                   /\ UNCHANGED <<updateItems, idx, logged>>
              ELSE /\ logged' = Append(logged, e)
                   /\ idx' = idx + 1
                   /\ UNCHANGED <<pc, outcome, error, updateItems>>
    /\ UNCHANGED <<config, updateList, returned, config0, updateList0, call, first, flagVars, streamVars>>

ReturnStep ==
    /\ pc = "loop"
    /\ idx > Len(updateList)
    /\ returned' = updateItems
    /\ outcome' = "returned"
    /\ pc' = "done"
    /\ UNCHANGED <<config, updateList, updateItems, idx, error, logged,
                   itemErr, config0, updateList0, call, first, flagVars, streamVars>>

\* The caller calls quickApiUpdateHandler again with the same policy object
\* and the same batch (the objects as the first call left them); getNowISO()
\* gives the same timestamp.
CallAgain ==
    /\ pc = "done"
    /\ call = 1
    /\ call' = 2
    /\ first' = [outcome |-> outcome, returned |-> returned, error |-> error,
                 config |-> config, updateList |-> updateList]
    /\ updateItems' = <<>>
    /\ idx' = 1
    /\ pc' = "validateConfig"
    /\ outcome' = "running"
    /\ returned' = <<>>
    /\ error' = NoError
    /\ logged' = <<>>
    /\ itemErr' = <<>>
    /\ UNCHANGED <<config, updateList, config0, updateList0, flagVars, streamVars>>

Next ==
    \/ ValidateConfigStep
    \/ AutoTimestampStep
    \/ AutoVersionStep
    \/ LoopStep
    \/ ReturnStep

\* The two other handlers are not invoked.
FlagsIdle ==
    /\ flagRecord = [exists |-> FALSE, version |-> 0, flags |-> 0]
    /\ flagRecord0 = flagRecord
    /\ inv = <<>>
    /\ puts = <<>>

StreamIdle ==
    /\ Records = <<>>
    /\ rIdx = 1
    /\ upsertDocs = <<>>
    /\ deleteDocs = <<>>
    /\ auditRecordsToCreate = <<>>
    /\ index = {}
    /\ index0 = {}
    /\ auditTable = <<>>
    /\ spc = "idle"

Start(cfg, list) ==
    /\ config = cfg
    /\ updateList = list
    /\ config0 = cfg
    /\ updateList0 = list
    /\ updateItems = <<>>
    /\ idx = 1
    /\ pc = "validateConfig"
    /\ outcome = "running"
    /\ returned = <<>>
    /\ error = NoError
    /\ logged = <<>>
    /\ itemErr = <<>>
    /\ call = 1
    /\ first = [outcome |-> "none", returned |-> <<>>, error |-> NoError,
                config |-> cfg, updateList |-> list]

-----------------------------------------------------------------------------
(* Inputs: batches of requests *)

GoodKey == Key("a", "b")

BatchRequests ==
    { Request(GoodKey, Bucket(<<[f |-> "status", v |-> Str("done")]>>),
              AbsentRemove, AbsentBucket, AbsentBucket),
      Request(Key("c", "d"), AbsentBucket, Remove(<<"tags">>),
              Bucket(<<[f |-> "count", v |-> Num(5)]>>), AbsentBucket),
      Request(GoodKey, Bucket(<<[f |-> "status", v |-> Str("done")]>>),
              Remove(<<"status">>), AbsentBucket, AbsentBucket),
      \* the caller supplies the auto-fields itself, in several buckets
      Request(GoodKey, Bucket(<<[f |-> "lastUpdated", v |-> Str("then")],
                                [f |-> "status", v |-> Str("done")]>>),
              Remove(<<"lastUpdated", "version">>), AbsentBucket,
              Bucket(<<[f |-> "version", v |-> List(<<1>>)],
                       [f |-> "lastUpdated", v |-> List(<<1>>)]>>)),
      Request(Key("a", ""), Bucket(<<[f |-> "status", v |-> Str("done")]>>),
              AbsentRemove, AbsentBucket, AbsentBucket),
      \* no key at all, and contents that would fail validation as well
      Request(NoKey, Bucket(<<[f |-> "status", v |-> Str("done")]>>),
              Remove(<<"status">>), AbsentBucket, AbsentBucket),
      NullRequest }

BatchRules ==
    { Rules(NoRule, NoRule, NoRule, NoRule),
      Rules(AllowAll, AllowAll, AllowAll, AllowAll),
      Rules(WithWhitelist(AllowAll, <<"status">>), NoRule,
            WithWhitelist(AllowAll, <<"count">>), AllowAll) }

Flags == BOOLEAN \X BOOLEAN \X BOOLEAN

Configs(rules) ==
    { Config(TRUE, r, fl[1], fl[2], fl[3]) : r \in rules, fl \in Flags }
    \cup { Config(FALSE, Rules(NoRule, NoRule, NoRule, NoRule), fl[1], fl[2], fl[3]) :
             fl \in Flags }

Batches == UNION { [1..n -> BatchRequests] : n \in 0..MaxBatch }

Init ==
    /\ \E cfg \in Configs(BatchRules), list \in Batches : Start(cfg, list)
    /\ FlagsIdle /\ StreamIdle

Spec == Init /\ [][Next]_vars

\* Two calls in a row on the same objects, for batches of up to MaxRerunBatch.
MaxRerunBatch == 2

NextAgain == Next \/ CallAgain

InitAgain ==
    /\ \E cfg \in Configs(BatchRules),
          list \in UNION { [1..n -> BatchRequests] : n \in 0..MaxRerunBatch } :
           Start(cfg, list)
    /\ FlagsIdle /\ StreamIdle

SpecAgain == InitAgain /\ [][NextAgain]_vars

-----------------------------------------------------------------------------
(* Inputs: one generated request under a range of policies *)

GenFields == {"status", "length"}
AddValues == {Num(1), Str("5"), Str("done"), Bool(TRUE), Null, List(<<>>),
              List(<<1, 2>>), EmptyMap}
AppendValues == {List(<<>>), List(<<1, 2>>), Str(""), Num(1), Bool(TRUE), Null, EmptyMap}

\* Entries combined freely, up to MaxEntries per request.
Entries ==
    { [a |-> "set", f |-> f, v |-> Str("done")] : f \in GenFields }
    \cup { [a |-> "remove", f |-> f, v |-> Null] : f \in GenFields }
    \cup { [a |-> "add", f |-> f, v |-> v] : f \in GenFields, v \in {Num(1), Str("done")} }
    \cup { [a |-> "append", f |-> f, v |-> v] : f \in GenFields,
                                               v \in {List(<<1>>), Str("done")} }

\* Entries tried alone: every kind of value in add and in append, and numbers
\* under "length".
SingleEntries ==
    { [a |-> "add", f |-> f, v |-> v] : f \in GenFields, v \in AddValues }
    \cup { [a |-> "set", f |-> "length", v |-> v] : v \in {Num(0), Num(1), Str("5")} }
    \cup { [a |-> "append", f |-> f, v |-> v] : f \in GenFields, v \in AppendValues }

AddEntry(r, e) ==
    IF e.a = "remove"
    THEN [r EXCEPT !.remove = Remove(r.remove.l \o <<e.f>>)]
    ELSE [r EXCEPT ![e.a] = AssignField(r[e.a], e.f, e.v)]

RECURSIVE BuildRequest(_, _)
BuildRequest(r, es) ==
    IF Len(es) = 0 THEN r ELSE BuildRequest(AddEntry(r, Head(es)), Tail(es))

EmptyRequest == Request(GoodKey, AbsentBucket, AbsentRemove, AbsentBucket, AbsentBucket)

\* Requests with a field named like one of the two start placeholders.
ReservedNameRequests ==
    { BuildRequest(EmptyRequest, es) : es \in
        { << [a |-> "set", f |-> "add__start__value", v |-> Str("done")],
             [a |-> "add", f |-> "status", v |-> Num(1)] >>,
          << [a |-> "add", f |-> "add__start__value", v |-> Num(1)] >>,
          << [a |-> "set", f |-> "append__start__value", v |-> Str("done")],
             [a |-> "append", f |-> "status", v |-> List(<<1>>)] >>,
          << [a |-> "append", f |-> "append__start__value", v |-> List(<<1>>)] >>,
          << [a |-> "set", f |-> "add__start__value", v |-> Str("done")] >> } }

\* Requests whose buckets are there but hold nothing.
EmptyBucketRequests ==
    { Request(GoodKey, Bucket(<<>>), Remove(<<>>), Bucket(<<>>), Bucket(<<>>)),
      Request(GoodKey, Bucket(<<>>), AbsentRemove, AbsentBucket, AbsentBucket),
      Request(GoodKey, AbsentBucket, Remove(<<>>), AbsentBucket, AbsentBucket) }

GenRequests ==
    { BuildRequest(EmptyRequest, es) : es \in UNION { [1..n -> Entries] : n \in 0..MaxEntries } }
    \cup { BuildRequest(EmptyRequest, <<e>>) : e \in SingleEntries }
    \cup ReservedNameRequests
    \cup EmptyBucketRequests

Uniform(rule) == Rules(rule, rule, rule, rule)

GenRules ==
    { Uniform(NoRule),
      Uniform(AllowAll),
      Uniform(BareRule),
      Uniform(WithWhitelist(BareRule, <<"status">>)),
      Uniform(WithBlacklist(BareRule, <<"status">>)),
      Uniform(WithMandatory(BareRule, <<"status">>)),
      Uniform(WithMandatory(WithBlacklist(WithWhitelist(AllowAll, <<"length">>),
                                          <<"status">>), <<"length">>)),
      Rules(AllowAll, NoRule, AllowAll, WithWhitelist(BareRule, <<"status">>)),
      Rules(WithWhitelist(BareRule, <<"status">>), AllowAll,
            WithMandatory(BareRule, <<"status">>), AllowAll) }

InitRequest ==
    /\ \E cfg \in Configs(GenRules), r \in GenRequests : Start(cfg, <<r>>)
    /\ FlagsIdle /\ StreamIdle

SpecRequest == InitRequest /\ [][Next]_vars

-----------------------------------------------------------------------------
(* Vocabulary of the claims *)

Passes(item, cfg) == ItemError(item, cfg) = NoError

\* The descriptors of the requests that pass, in input order.
ExpectedDescriptors(list, cfg) ==
    LET ok == SelectSeq(list, LAMBDA r : Passes(r, cfg))
    IN  [i \in 1..Len(ok) |-> UpdateObj(ok[i])]

Failing(list, cfg) == {i \in 1..Len(list) : ~Passes(list[i], cfg)}

\* The loop has handled the single request of a one-request batch.
Processed == Len(updateList) = 1 /\ Len(itemErr) = 1
item == updateList[1]
verdict == itemErr[1]

ActionSet == SeqToSet(Actions)
FieldsOf(r, a) == SeqToSet(AllFields(r)[a])
Used(r, a) == FieldsOf(r, a) # {}
RuleOf(cfg, a) == cfg.actionRules[a]
Permits(cfg, a) == RuleOf(cfg, a).present /\ RuleOf(cfg, a).allowAll

AllFieldNames(r) == UNION {FieldsOf(r, a) : a \in ActionSet}
InTwoBuckets(r, f) ==
    \E a, b \in ActionSet : a # b /\ f \in FieldsOf(r, a) /\ f \in FieldsOf(r, b)
Occurrences(r, f) ==
    Cardinality({j \in 1..Len(FieldsList(AllFields(r))) : FieldsList(AllFields(r))[j] = f})

AutoInjected(cfg) ==
    (IF cfg.autoTimestamp THEN {"lastUpdated"} ELSE {})
    \cup (IF cfg.autoVersion THEN {"version"} ELSE {})

\* The per-action policy step throws for some bucket of the request.
PolicyRejects(r, cfg) ==
    \E a \in ActionSet : r[a].present /\ ~Permits(cfg, a) /\ LengthPositive(r, a)

PolicyKinds == {"ActionNotPermitted", "FieldNotWhitelisted", "FieldBlacklisted",
                "MissingMandatoryField", "TypeError"}

WellTyped(r) ==
    /\ \A i \in 1..Len(r.add.kv) : r.add.kv[i].v.t = "N"
    /\ \A i \in 1..Len(r.append.kv) : r.append.kv[i].v.t = "L"

-----------------------------------------------------------------------------
(* C1 *)

\* C1: with failOnError false and a policy that has actionRules, the call
\* returns exactly the descriptors of the requests that pass the key check and
\* validateUpdateFields, in input order, and nothing for the other requests.
C1_ReturnsDescriptorsOfPassingRequests ==
    (pc = "done" /\ config0.hasRules /\ ~config0.failOnError)
        => (outcome = "returned" /\ returned = ExpectedDescriptors(updateList, config))

\* What does hold: whenever the call returns, the list is exactly that.
ReturnedListIsPassingRequestsInOrder ==
    (outcome = "returned" /\ ~config0.failOnError)
        => returned = ExpectedDescriptors(updateList, config)

-----------------------------------------------------------------------------
(* C2 *)

\* C2: with failOnError true, a batch with a failing request makes the call
\* fail with the error of the first failing request and return nothing; a
\* batch without one returns one descriptor per request.
C2_FailFastSurfacesFirstError ==
    (pc = "done" /\ config0.hasRules /\ config0.failOnError)
        => LET bad == Failing(updateList, config)
           IN  IF bad # {}
               THEN /\ outcome = "thrown"
                    /\ error = ItemError(updateList[CHOOSE i \in bad : \A j \in bad : i <= j], config)
                    /\ returned = <<>>
               ELSE /\ outcome = "returned"
                    /\ returned = [i \in 1..Len(updateList) |-> UpdateObj(updateList[i])]

\* What does hold: the same, for the calls whose auto-field step completes.
FailFastSurfacesFirstErrorOfLoop ==
    (pc = "done" /\ config0.hasRules /\ config0.failOnError /\ error.kind # "TypeError")
        => LET bad == Failing(updateList, config)
           IN  IF bad # {}
               THEN /\ outcome = "thrown"
                    /\ error = ItemError(updateList[CHOOSE i \in bad : \A j \in bad : i <= j], config)
                    /\ returned = <<>>
               ELSE /\ outcome = "returned"
                    /\ returned = [i \in 1..Len(updateList) |-> UpdateObj(updateList[i])]

-----------------------------------------------------------------------------
(* C3 *)

\* C3: a policy without actionRules makes the call fail with the
\* configuration error as its first step, whatever the batch and the flags:
\* no request and no part of the policy is modified, nothing is compiled.
C3_NoActionRulesIsFatalAndTouchesNothing ==
    (~config0.hasRules /\ pc # "validateConfig")
        => /\ pc = "done"
           /\ outcome = "thrown"
           /\ error.kind = "ConfigurationError"
           /\ updateList = updateList0
           /\ config = config0
           /\ updateItems = <<>>
           /\ returned = <<>>
           /\ itemErr = <<>>

C3_Witness ==
    /\ ~config0.hasRules
    /\ config0.autoTimestamp /\ config0.autoVersion /\ ~config0.failOnError
    /\ Len(updateList0) >= 2
    /\ \E i \in 1..Len(updateList0) : Passes(updateList0[i], config0)
    /\ pc = "done" /\ error.kind = "ConfigurationError"

-----------------------------------------------------------------------------
(* C4 *)

\* C4: with failOnError false and a policy that has actionRules the call
\* never fails, whatever the batch (null entries included) and the auto flags.
C4_NonFailFastNeverFails ==
    (pc = "done" /\ config0.hasRules /\ ~config0.failOnError) => outcome = "returned"

-----------------------------------------------------------------------------
(* C5 *)

\* C5 as stated: a field (not auto-injected) in two buckets of a request with
\* a valid key always fails validation with DuplicateField naming a
\* duplicated field, under every policy with actionRules.
C5_DuplicateAlwaysDuplicateField ==
    (Processed /\ ~MalformedKey(item)
       /\ \E f \in AllFieldNames(updateList0[1]) \ AutoInjected(config0) :
              InTwoBuckets(updateList0[1], f))
        => (verdict.kind = "DuplicateField" /\ Occurrences(item, verdict.field) >= 2)

\* C5 amended: such a request always fails validation and yields no
\* descriptor; the error is DuplicateField naming a duplicated field unless
\* the per-action policy step, which runs first, throws ActionNotPermitted.
C5_DuplicateFailsAfterPolicyStep ==
    (Processed /\ ~MalformedKey(item)
       /\ \E f \in AllFieldNames(updateList0[1]) \ AutoInjected(config0) :
              InTwoBuckets(updateList0[1], f))
        => /\ updateItems = <<>>
           /\ IF PolicyRejects(item, config)
              THEN verdict.kind = "ActionNotPermitted"
              ELSE /\ verdict.kind = "DuplicateField"
                   /\ Occurrences(item, verdict.field) >= 2

C5_Witness ==
    /\ Processed
    /\ "status" \in FieldsOf(item, "add") /\ "status" \in FieldsOf(item, "remove")
    /\ verdict = Err("DuplicateField", "", "status")
    /\ pc = "done" /\ returned = <<>>

-----------------------------------------------------------------------------
(* C6 *)

\* C6: a non-empty bucket whose action has no rule, or a rule without
\* allowAll: true, fails validation with ActionNotPermitted naming such an
\* action, for each of set / remove / add / append.
C6_UnpermittedActionRejected ==
    (Processed /\ ~MalformedKey(item))
        => \A a \in ActionSet :
              (Used(item, a) /\ ~Permits(config, a))
                  => /\ verdict.kind = "ActionNotPermitted"
                     /\ Used(item, verdict.action)
                     /\ ~Permits(config, verdict.action)

-----------------------------------------------------------------------------
(* C7 *)

\* C7: under a rule with a whitelist and without allowAll: true, a request
\* using that action on a field outside the whitelist is rejected and yields
\* no descriptor.
C7_NotWhitelistedRejected ==
    (Processed /\ ~MalformedKey(item))
        => \A a \in ActionSet :
              (/\ RuleOf(config, a).present
               /\ RuleOf(config, a).hasWhitelist
               /\ ~RuleOf(config, a).allowAll
               /\ \E f \in FieldsOf(item, a) : f \notin SeqToSet(RuleOf(config, a).whitelist))
                  => (verdict # NoError /\ updateItems = <<>>)

-----------------------------------------------------------------------------
(* C8 *)

\* C8 as stated: an allowAll rule makes the policy step accept every field
\* of its bucket, and a request with a valid key that uses only allowAll
\* actions, has no cross-bucket duplicate and well-typed add / append values
\* always compiles to a descriptor.
C8_AllowAllCompiles ==
    (Processed /\ ~MalformedKey(item))
        => /\ \A a \in ActionSet :
                 Permits(config, a) => ~(verdict.kind \in PolicyKinds /\ verdict.action = a)
           /\ (/\ \A a \in ActionSet : Used(item, a) => Permits(config, a)
               /\ \A f \in AllFieldNames(item) : ~InTwoBuckets(item, f)
               /\ WellTyped(item))
                  => (verdict = NoError /\ updateItems = <<UpdateObj(item)>>)

\* C8 amended: the same, for requests in which no field name occurs twice in
\* the combined field list (in two buckets, or repeated within remove).
C8_AllowAllCompilesWithoutRepeatedField ==
    (Processed /\ ~MalformedKey(item))
        => /\ \A a \in ActionSet :
                 Permits(config, a) => ~(verdict.kind \in PolicyKinds /\ verdict.action = a)
           /\ (/\ \A a \in ActionSet : Used(item, a) => Permits(config, a)
               /\ \A f \in AllFieldNames(item) : Occurrences(item, f) = 1
               /\ WellTyped(item))
                  => (verdict = NoError /\ updateItems = <<UpdateObj(item)>>)

C8_Witness ==
    /\ Processed
    /\ Permits(config, "set")
    /\ "status" \in SeqToSet(RuleOf(config, "set").blacklist)
    /\ "status" \notin SeqToSet(RuleOf(config, "set").whitelist)
    /\ "length" \in SeqToSet(RuleOf(config, "set").mandatoryFields)
    /\ FieldsOf(item, "set") = {"status"}
    /\ Used(item, "remove")
    /\ verdict = NoError
    /\ pc = "done" /\ returned = <<UpdateObj(item)>>

-----------------------------------------------------------------------------
(* C9 *)

\* C9: under a rule declaring mandatoryFields, a request using that action
\* without one of them fails with MissingMandatoryField and yields no
\* descriptor.
C9_MissingMandatoryRejected ==
    (Processed /\ ~MalformedKey(item))
        => \A a \in ActionSet :
              (/\ RuleOf(config, a).present
               /\ RuleOf(config, a).hasMandatory
               /\ Used(item, a)
               /\ \E m \in SeqToSet(RuleOf(config, a).mandatoryFields) : m \notin FieldsOf(item, a))
                  => (verdict.kind = "MissingMandatoryField" /\ updateItems = <<>>)

-----------------------------------------------------------------------------
(* C10 *)

\* C10: an add (increment) value that is not a number fails validation with
\* InvalidIncrementType and yields no descriptor (for requests the earlier
\* policy and duplicate steps let through); all-number add values never fail
\* that check.
C10_NonNumberIncrementRejected ==
    (Processed /\ ~MalformedKey(item))
        => /\ ((\E i \in 1..Len(item.add.kv) : item.add.kv[i].v.t # "N")
                 /\ verdict.kind \notin {"ActionNotPermitted", "DuplicateField"})
                  => (verdict.kind = "InvalidIncrementType" /\ updateItems = <<>>)
           /\ (\A i \in 1..Len(item.add.kv) : item.add.kv[i].v.t = "N")
                  => verdict.kind # "InvalidIncrementType"

-----------------------------------------------------------------------------
(* C11 *)

NonSequenceAppend(r) == \E i \in 1..Len(r.append.kv) : r.append.kv[i].v.t # "L"

\* The checks of validateUpdateFields that run before the append type check.
EarlierCheckFails(r, cfg) ==
    \/ PolicyRejects(r, cfg)
    \/ \E f \in AllFieldNames(r) : Occurrences(r, f) >= 2
    \/ \E i \in 1..Len(r.add.kv) : isNaN(r.add.kv[i].v)

\* C11 as stated: a request (with a valid key) whose append bucket holds a
\* value that is not a sequence always fails validation with InvalidAppendType
\* and yields no descriptor.
C11_NonSequenceAppendAlwaysInvalidAppendType ==
    (Processed /\ ~MalformedKey(item) /\ NonSequenceAppend(item))
        => (verdict.kind = "InvalidAppendType" /\ updateItems = <<>>)

\* C11 amended: such a request always fails validation and yields no
\* descriptor; the error is InvalidAppendType naming an append field whose
\* value is not a sequence, unless one of the earlier checks (policy step,
\* duplicate check, increment type check) throws first.
C11_NonSequenceAppendFailsAfterEarlierChecks ==
    (Processed /\ ~MalformedKey(item) /\ NonSequenceAppend(item))
        => /\ verdict # NoError
           /\ updateItems = <<>>
           /\ IF EarlierCheckFails(item, config)
              THEN verdict.kind \in {"ActionNotPermitted", "DuplicateField",
                                     "InvalidIncrementType"}
              ELSE /\ verdict.kind = "InvalidAppendType"
                   /\ verdict.field \in FieldsOf(item, "append")
                   /\ Lookup(item.append, verdict.field).t # "L"

C11_Witness ==
    /\ Processed
    /\ Permits(config, "append")
    /\ FieldsOf(item, "append") = {"status"}
    /\ Lookup(item.append, "status") = Str("")
    /\ verdict = Err("InvalidAppendType", "append", "status")
    /\ pc = "done" /\ returned = <<>>

-----------------------------------------------------------------------------
(* C12 *)

\* The buckets of request r whose fields include f.
BucketsWith(r, f) == {a \in ActionSet : f \in FieldsOf(r, a)}

\* The autoTimestamp step has run to its end.
AutoTimestampDone ==
    /\ config0.hasRules /\ config0.autoTimestamp
    /\ \/ pc \in {"autoVersion", "loop"}
       \/ pc = "done" /\ error.kind # "TypeError"

\* C12: with autoTimestamp true, once the auto-field step has run every
\* request of the batch has lastUpdated in exactly one bucket, set, holding the
\* fresh timestamp, whatever the caller supplied for it; lastUpdated is never
\* the field of a DuplicateField failure and every descriptor carries the fresh
\* timestamp under :lastUpdated.
C12_AutoTimestampOwnsLastUpdated ==
    AutoTimestampDone
        => /\ \A i \in 1..Len(updateList) :
                 /\ BucketsWith(updateList[i], "lastUpdated") = {"set"}
                 /\ Occurrences(updateList[i], "lastUpdated") = 1
                 /\ Lookup(updateList[i].set, "lastUpdated") = Str(now)
           /\ \A i \in 1..Len(itemErr) :
                 ~(itemErr[i].kind = "DuplicateField" /\ itemErr[i].field = "lastUpdated")
           /\ \A j \in 1..Len(updateItems) :
                 /\ ":lastUpdated" \in DOMAIN updateItems[j].data.ExpressionAttributeValues
                 /\ updateItems[j].data.ExpressionAttributeValues[":lastUpdated"]
                        = [tag |-> "S", s |-> now, l |-> <<>>]

C12_Witness ==
    /\ AutoTimestampDone
    /\ pc = "done" /\ outcome = "returned"
    /\ Len(updateList0) = 2
    /\ BucketsWith(updateList0[2], "lastUpdated") = {"set", "remove", "append"}
    /\ Lookup(updateList0[2].set, "lastUpdated") = Str("then")
    /\ Len(returned) = 2
    /\ returned[2].data.ExpressionAttributeValues[":lastUpdated"]
           = [tag |-> "S", s |-> now, l |-> <<>>]

-----------------------------------------------------------------------------
(* C13 *)

\* Both auto-field steps have run to their end.
AutoVersionDone ==
    /\ config0.hasRules /\ config0.autoVersion
    /\ \/ pc = "loop"
       \/ pc = "done" /\ error.kind # "TypeError"

\* C13: with autoVersion true, once the auto-field steps have run every
\* request of the batch has version in exactly one bucket, add, with delta 1,
\* whatever the caller supplied for it; and when autoTimestamp is true as well,
\* lastUpdated is still in exactly the set bucket with the fresh timestamp.
C13_AutoVersionOwnsVersion ==
    AutoVersionDone
        => \A i \in 1..Len(updateList) :
              /\ BucketsWith(updateList[i], "version") = {"add"}
              /\ Occurrences(updateList[i], "version") = 1
              /\ Lookup(updateList[i].add, "version") = Num(1)
              /\ config0.autoTimestamp
                    => /\ BucketsWith(updateList[i], "lastUpdated") = {"set"}
                       /\ Lookup(updateList[i].set, "lastUpdated") = Str(now)

C13_Witness ==
    /\ AutoVersionDone /\ config0.autoTimestamp
    /\ pc = "done" /\ outcome = "returned"
    /\ Len(updateList0) = 2
    /\ BucketsWith(updateList0[1], "version") = {"remove", "append"}
    /\ BucketsWith(updateList0[2], "version") = {}
    /\ Len(returned) = 2
    /\ returned[1].data.ExpressionAttributeValues[":version"]
           = [tag |-> "N", s |-> "1", l |-> <<>>]

-----------------------------------------------------------------------------
(* C14 *)

\* A request object whose key is missing or lacks a non-empty pk or sk.
BadKey(r) == ~r.isNull /\ (~r.key.present \/ r.key.pk = "" \/ r.key.sk = "")

\* The contents of request r apart from the fields named in skip.
ContentsWithout(r, skip) ==
    [key    |-> r.key,
     set    |-> SelectSeq(r.set.kv, LAMBDA e : e.f \notin skip),
     remove |-> SelectSeq(r.remove.l, LAMBDA f : f \notin skip),
     add    |-> SelectSeq(r.add.kv, LAMBDA e : e.f \notin skip),
     append |-> SelectSeq(r.append.kv, LAMBDA e : e.f \notin skip)]

\* Every descriptor built so far belongs to an iteration that passed, and
\* carries a key with both parts.
DescriptorsOnlyForGoodKeys ==
    /\ Len(updateItems) = Cardinality({k \in 1..Len(itemErr) : itemErr[k] = NoError})
    /\ \A j \in 1..Len(updateItems) :
          updateItems[j].data.Key.pk.s # "" /\ updateItems[j].data.Key.sk.s # ""

\* C14 as stated: a request with a malformed key never yields a descriptor,
\* the error of its iteration is the malformed-key error whatever else is wrong
\* with it, and the request is left exactly as the caller passed it (no
\* auto-field is injected into its buckets).
C14_MalformedKeyRejectedUntouched ==
    \A i \in 1..Len(updateList0) :
        BadKey(updateList0[i])
            => /\ updateList[i] = updateList0[i]
               /\ i <= Len(itemErr) => itemErr[i] = Err("MalformedKey", "", "")
               /\ DescriptorsOnlyForGoodKeys

\* C14 amended: the same, except that the auto-field step, which runs over
\* the whole batch before the loop, may have rewritten lastUpdated / version
\* in the request; everything else in it is as the caller passed it.
C14_MalformedKeyRejectedBeforeValidation ==
    \A i \in 1..Len(updateList0) :
        BadKey(updateList0[i])
            => /\ ContentsWithout(updateList[i], AutoInjected(config0))
                    = ContentsWithout(updateList0[i], AutoInjected(config0))
               /\ i <= Len(itemErr) => itemErr[i] = Err("MalformedKey", "", "")
               /\ DescriptorsOnlyForGoodKeys

C14_Witness ==
    /\ pc = "done" /\ outcome = "returned"
    /\ config0.autoTimestamp /\ ~config0.autoVersion
    /\ Len(updateList0) = 2
    /\ updateList0[1].key = Key("a", "")
    /\ ~updateList0[2].key.present
    /\ InTwoBuckets(updateList0[2], "status")
    /\ ~Permits(config, "remove")
    /\ Lookup(updateList[2].set, "lastUpdated") = Str(now)
    /\ itemErr = <<Err("MalformedKey", "", ""), Err("MalformedKey", "", "")>>
    /\ returned = <<>>

-----------------------------------------------------------------------------
(* C15 *)

\* The position in the batch of the request that produced the j-th descriptor.
RequestOfDescriptor(j) ==
    CHOOSE k \in 1..Len(itemErr) :
        /\ itemErr[k] = NoError
        /\ Cardinality({m \in 1..k : itemErr[m] = NoError}) = j

ConditionalUpdateOf(d, r) ==
    /\ d.action = "Update"
    /\ d.data.TableName = tableName
    /\ d.data.Key = [pk |-> [tag |-> "S", s |-> r.key.pk, l |-> <<>>],
                     sk |-> [tag |-> "S", s |-> r.key.sk, l |-> <<>>]]
    /\ d.data.ConditionExpression = "attribute_exists(pk)"

\* C15: every descriptor built, and so every descriptor returned, is an
\* Update on the given table whose Key is the serialized key of its request
\* and whose ConditionExpression is attribute_exists(pk).
C15_DescriptorsAreConditionalUpdates ==
    /\ Len(updateItems) = Cardinality({k \in 1..Len(itemErr) : itemErr[k] = NoError})
    /\ \A j \in 1..Len(updateItems) :
          ConditionalUpdateOf(updateItems[j], updateList[RequestOfDescriptor(j)])
    /\ outcome = "returned" => returned = updateItems
    /\ outcome # "returned" => returned = <<>>

C15_Witness ==
    /\ pc = "done" /\ outcome = "returned"
    /\ itemErr = <<NoError, Err("MalformedKey", "", ""), NoError>>
    /\ updateList[1].key = Key("a", "b")
    /\ updateList[3].key = Key("c", "d")
    /\ Len(returned) = 2
    /\ returned[2].data.Key.pk.s = "c"
    /\ returned[2].data.ConditionExpression = "attribute_exists(pk)"

-----------------------------------------------------------------------------
(* C16 *)

\* The sub-clauses of the SET clause of request r: assign, then increment,
\* then append, each in the order of its bucket.
SubClauses(r) ==
    [i \in 1..Len(r.set.kv) |-> "#" \o r.set.kv[i].f \o " = :" \o r.set.kv[i].f]
    \o [i \in 1..Len(r.add.kv) |->
            "#" \o r.add.kv[i].f \o " = if_not_exists(#" \o r.add.kv[i].f
                \o ", :add__start__value) + :" \o r.add.kv[i].f]
    \o [i \in 1..Len(r.append.kv) |->
            "#" \o r.append.kv[i].f \o " = list_append(if_not_exists(#"
                \o r.append.kv[i].f \o ", :append__start__value), :"
                \o r.append.kv[i].f \o ")"]

RECURSIVE CommaSeparated(_)
CommaSeparated(strs) ==
    IF Len(strs) = 1 THEN strs[1] ELSE strs[1] \o ", " \o CommaSeparated(Tail(strs))

ExpectedExpression(r) ==
    LET sub == SubClauses(r)
        rem == [i \in 1..Len(r.remove.l) |-> "#" \o r.remove.l[i]]
    IN  CASE Len(sub) = 0 /\ Len(rem) = 0 -> ""
          [] Len(sub) > 0 /\ Len(rem) = 0 -> "SET " \o CommaSeparated(sub)
          [] Len(sub) = 0 /\ Len(rem) > 0 -> "REMOVE " \o CommaSeparated(rem)
          [] OTHER -> "SET " \o CommaSeparated(sub) \o " REMOVE " \o CommaSeparated(rem)

\* C16: the update expression of a compiled request is the SET clause (present
\* exactly when set, add or append is non-empty; sub-clauses in the order set,
\* add, append, comma-separated), then the REMOVE clause (present exactly when
\* remove is non-empty), with one space between the two; an empty bucket
\* contributes no text.
C16_ExpressionFormat ==
    (Processed /\ verdict = NoError)
        => /\ Len(updateItems) = 1
           /\ updateItems[1].data.UpdateExpression = ExpectedExpression(item)
           /\ (FieldsOf(item, "set") = {"status"} /\ ~Used(item, "remove")
                 /\ ~Used(item, "add") /\ ~Used(item, "append"))
                  => updateItems[1].data.UpdateExpression = "SET #status = :status"

C16_Witness ==
    /\ Processed /\ verdict = NoError
    /\ pc = "done" /\ outcome = "returned"
    /\ FieldsOf(item, "set") = {"status"} /\ FieldsOf(item, "remove") = {"length"}
    /\ ~Used(item, "add") /\ ~Used(item, "append")
    /\ returned[1].data.UpdateExpression = "SET #status = :status REMOVE #length"

-----------------------------------------------------------------------------
(* C17 *)

ReservedNames == {"add__start__value", "append__start__value"}

\* values maps ":f" to the serialization of the value bucket b holds for f.
HoldsValuesOf(values, b, convertTopLevelContainer) ==
    \A i \in 1..Len(b.kv) :
        /\ (":" \o b.kv[i].f) \in DOMAIN values
        /\ values[":" \o b.kv[i].f] = marshall(b.kv[i].v, convertTopLevelContainer)

\* C17: the values map of the descriptor of a validated request maps ":f" to
\* the serialization of the request's value for every field f of set, add and
\* append, whatever the fields are called; and when add (append) is non-empty
\* the start placeholder maps to the serialized zero (empty sequence).
C17_ValuesMapHoldsEveryValue ==
    (Processed /\ verdict = NoError)
        => LET values == updateItems[1].data.ExpressionAttributeValues
           IN  /\ HoldsValuesOf(values, item.set, TRUE)
               /\ HoldsValuesOf(values, item.add, FALSE)
               /\ HoldsValuesOf(values, item.append, TRUE)
               /\ Used(item, "add")
                     => values[":add__start__value"] = [tag |-> "N", s |-> "0", l |-> <<>>]
               /\ Used(item, "append")
                     => values[":append__start__value"] = [tag |-> "L", s |-> "", l |-> <<>>]

\* The same holds of every request none of whose fields bears a reserved name.
ValuesMapHoldsEveryValueOfUnreservedNames ==
    (AllFieldNames(item) \cap ReservedNames = {}) => C17_ValuesMapHoldsEveryValue

-----------------------------------------------------------------------------
(* C18 *)

SecondCallDone == call = 2 /\ pc = "done"

\* C18: compiling the same batch again through quickApiUpdateHandler, with
\* the same policy object and the same timestamp, ends as the first call did:
\* the same descriptors (update expression, names map and values map
\* included) are returned, or the same error is thrown, and the requests are
\* left as the first call left them.
C18_SecondCallCompilesTheSame ==
    SecondCallDone
        => /\ outcome = first.outcome
           /\ returned = first.returned
           /\ error = first.error
           /\ updateList = first.updateList

C18_Witness ==
    /\ SecondCallDone
    /\ outcome = "returned"
    /\ config0.autoTimestamp /\ config0.autoVersion
    /\ Len(updateList0) = 2
    /\ BucketsWith(updateList0[1], "version") = {"remove", "append"}
    /\ Len(returned) = 2
    /\ returned = first.returned
    /\ returned[1].data.ExpressionAttributeValues[":version"]
           = [tag |-> "N", s |-> "1", l |-> <<>>]
    /\ config # first.config

-----------------------------------------------------------------------------
(* C19 *)

\* The policy object at the start of the current call.
ConfigAtCallStart == IF call = 1 THEN config0 ELSE first.config

CountIn(list, f) == Cardinality({i \in 1..Len(list) : list[i] = f})

\* C19: a second call with the same policy object and batch leaves the policy
\* object exactly as the first call left it, and within one call a whitelist
\* gains an auto-field name at most once, however many requests the batch has.
C19_PolicyMutationIsIdempotent ==
    /\ SecondCallDone => config = first.config
    /\ \A a \in {"set", "add"}, f \in {"lastUpdated", "version"} :
          CountIn(config.actionRules[a].whitelist, f)
              <= CountIn(ConfigAtCallStart.actionRules[a].whitelist, f) + 1

\* What the calls do to a policy object: nothing but appending auto-field
\* names to the whitelists of set and add.
PolicyMutationOnlyExtendsWhitelists ==
    /\ config.hasRules = config0.hasRules
    /\ \A a \in ActionSet :
          LET w == config.actionRules[a].whitelist
              w0 == config0.actionRules[a].whitelist
          IN  /\ [config.actionRules[a] EXCEPT !.whitelist = w0] = config0.actionRules[a]
              /\ Len(w) >= Len(w0)
              /\ SubSeq(w, 1, Len(w0)) = w0
              /\ \A i \in (Len(w0) + 1)..Len(w) : w[i] \in AutoInjected(config0)

-----------------------------------------------------------------------------
(* C20 *)

\* C20: with autoTimestamp false and autoVersion false the handler leaves
\* every request of the batch and the policy object as the caller passed them,
\* at every point of the call and however it ends.
C20_NoAutoFieldsNoMutation ==
    (~config0.autoTimestamp /\ ~config0.autoVersion)
        => (updateList = updateList0 /\ config = config0)

C20_Witness ==
    /\ ~config0.autoTimestamp /\ ~config0.autoVersion
    /\ pc = "done" /\ outcome = "thrown"
    /\ Len(updateList0) = 3
    /\ Len(itemErr) = 2
    /\ itemErr[1] = NoError
    /\ itemErr[2].kind = "DuplicateField"
    /\ "lastUpdated" \in FieldsOf(updateList0[2], "remove")
    /\ Len(updateItems) = 1
    /\ updateList = updateList0 /\ config = config0

-----------------------------------------------------------------------------
(* C21 *)

\* The auto-field steps of a call whose batch is the single request r, under
\* policy cfg: the request and the policy as the loop would then see them.
AloneAfterAutoFields(r, cfg) ==
    LET ts == IF cfg.autoTimestamp
              THEN AutoField(<<r>>, cfg, 1, "lastUpdated", Str(now), "set")
              ELSE [threw |-> FALSE, list |-> <<r>>, config |-> cfg]
        vs == IF ~ts.threw /\ cfg.autoVersion
              THEN AutoField(ts.list, ts.config, 1, "version", Num(1), "add")
              ELSE ts
    IN  [threw |-> vs.threw, request |-> vs.list[1], config |-> vs.config]

\* The number of descriptors built by the iterations 1..i of the loop.
DescriptorsUpTo(i) == Cardinality({k \in 1..i : itemErr[k] = NoError})

\* The verdict on request i and its descriptor, if any, are those of a call
\* on the one-element batch holding request i.
SameAsAlone(i) ==
    LET alone == AloneAfterAutoFields(updateList0[i], config0)
    IN  /\ itemErr[i] = ItemError(alone.request, alone.config)
        /\ itemErr[i] = NoError
              => updateItems[DescriptorsUpTo(i)] = UpdateObj(alone.request)

\* C21: once the call has ended, the verdict on every request i and the
\* descriptor it yields are those of a call on the one-element batch holding
\* request i, with the same initial policy and timestamp (under failOnError,
\* for the requests up to the one that made the call fail).
C21_OutcomeIndependentOfBatch ==
    (pc = "done" /\ config0.hasRules)
        => \A i \in 1..Len(updateList0) :
              ~AloneAfterAutoFields(updateList0[i], config0).threw
                  => IF config0.failOnError
                     THEN i <= Len(itemErr) => SameAsAlone(i)
                     ELSE i <= Len(itemErr) /\ SameAsAlone(i)

\* For every position the loop has handled, the verdict and the descriptor
\* are those of the request compiled alone, however much the whitelists grew.
VerdictIndependentOfBatch ==
    \A i \in 1..Len(itemErr) :
        /\ ~AloneAfterAutoFields(updateList0[i], config0).threw
        /\ SameAsAlone(i)

-----------------------------------------------------------------------------
(* C22 *)

\* A request with a valid key and no field in any bucket.
EmptyUpdate(r) ==
    /\ ~r.isNull /\ r.key.present /\ r.key.pk # "" /\ r.key.sk # ""
    /\ AllFieldNames(r) = {}

\* C22: with autoTimestamp and autoVersion false, a request with a valid key
\* and no field in any bucket (buckets absent or empty) is not rejected: it
\* yields a descriptor whose update expression is the empty string and whose
\* names and values maps are empty.
C22_EmptyRequestCompilesToEmptyExpression ==
    (Processed /\ ~config0.autoTimestamp /\ ~config0.autoVersion /\ EmptyUpdate(item))
        => /\ verdict = NoError
           /\ Len(updateItems) = 1
           /\ updateItems[1].action = "Update"
           /\ updateItems[1].data.UpdateExpression = ""
           /\ DOMAIN updateItems[1].data.ExpressionAttributeNames = {}
           /\ DOMAIN updateItems[1].data.ExpressionAttributeValues = {}

C22_Witness ==
    /\ Processed /\ ~config0.autoTimestamp /\ ~config0.autoVersion
    /\ item.set.present /\ item.remove.present /\ EmptyUpdate(item)
    /\ ~RuleOf(config, "remove").present
    /\ pc = "done" /\ outcome = "returned"
    /\ Len(returned) = 1
    /\ returned[1].data.UpdateExpression = ""
    /\ returned[1].data.ConditionExpression = "attribute_exists(pk)"

-----------------------------------------------------------------------------
(* The feature-flags PUT handler *)

MaxInvocations == 2    \* concurrent invocations of the handler

\* What an invocation is called with: a CORS preflight, a caller who is not a
\* superadmin, a body without flags, a flag that is not a boolean, or a valid
\* update.
RequestKinds == {"options", "unauthorized", "noFlags", "nonBoolean", "valid"}

\* The stored item before the invocations: none, or one with a version
\* (0 stands for an item without a version as well: version || 0).
NoFlagRecord == [exists |-> FALSE, version |-> 0, flags |-> 0]
InitialFlagRecords ==
    {NoFlagRecord} \cup { [exists |-> TRUE, version |-> v, flags |-> 0] : v \in {0, 1, 4} }

Invocation(kind) ==
    [kind |-> kind, pc |-> "start", currentConfig |-> NoFlagRecord,
     version |-> 0, response |-> "none"]

\* sendResponse(...) ends the invocation.
Respond(i, response) ==
    inv' = [inv EXCEPT ![i].pc = "done", ![i].response = response]

\* Preflight, authorization and body validation.
FlagsCheck(i) ==
    /\ inv[i].pc = "start"
    /\ CASE inv[i].kind = "options"      -> Respond(i, "preflight")
         [] inv[i].kind = "unauthorized" -> Respond(i, "unauthorized")
         [] inv[i].kind = "noFlags"      -> Respond(i, "rejected")
         [] inv[i].kind = "nonBoolean"   -> Respond(i, "rejected")
         [] inv[i].kind = "valid"        -> inv' = [inv EXCEPT ![i].pc = "getOne"]
    /\ UNCHANGED <<flagRecord, flagRecord0, puts, handlerVars, streamVars>>

\* const currentConfig = await getOne('config', 'featureFlags', ...)
FlagsGetOne(i) ==
    /\ inv[i].pc = "getOne"
    /\ inv' = [inv EXCEPT ![i].pc = "putItem", ![i].currentConfig = flagRecord]
    /\ UNCHANGED <<flagRecord, flagRecord0, puts, handlerVars, streamVars>>

\* version: (currentConfig?.version || 0) + 1 ; await putItem(updatedConfig, ...)
FlagsPutItem(i) ==
    /\ inv[i].pc = "putItem"
    /\ LET version == (IF inv[i].currentConfig.exists
                       THEN inv[i].currentConfig.version ELSE 0) + 1
       IN  /\ flagRecord' = [exists |-> TRUE, version |-> version, flags |-> i]
           /\ puts' = Append(puts, version)
           /\ inv' = [inv EXCEPT ![i].pc = "audit", ![i].version = version]
    /\ UNCHANGED <<flagRecord0, handlerVars, streamVars>>

\* await writeAuditLog(...) then the 200 response with updatedConfig.version;
\* if the audit write throws, the catch sends the error response.
FlagsAuditAndRespond(i) ==
    /\ inv[i].pc = "audit"
    /\ \E ok \in BOOLEAN : Respond(i, IF ok THEN "updated" ELSE "failed")
    /\ UNCHANGED <<flagRecord, flagRecord0, puts, handlerVars, streamVars>>

NextFlags ==
    \/ \E i \in 1..Len(inv) : FlagsCheck(i)
    \/ \E i \in 1..Len(inv) : FlagsGetOne(i)
    \/ \E i \in 1..Len(inv) : FlagsPutItem(i)
    \/ \E i \in 1..Len(inv) : FlagsAuditAndRespond(i)

\* quickApiUpdateHandler is not called.
HandlerIdle ==
    Start(Config(FALSE, Uniform(NoRule), FALSE, FALSE, FALSE), <<>>)

InitFlags ==
    /\ flagRecord \in InitialFlagRecords
    /\ flagRecord0 = flagRecord
    /\ inv \in UNION { [1..n -> {Invocation(k) : k \in RequestKinds}] :
                            n \in 1..MaxInvocations }
    /\ puts = <<>>
    /\ HandlerIdle /\ StreamIdle

SpecFlags == InitFlags /\ [][NextFlags]_vars

-----------------------------------------------------------------------------
(* C23 *)

InitialVersion == IF flagRecord0.exists THEN flagRecord0.version ELSE 0

\* The invocations that have answered 200 with a version.
Updated == {i \in 1..Len(inv) : inv[i].response = "updated"}

\* C23: under any interleaving of invocations, each update stores a version
\* exactly one greater than the update before it: after n updates the stored
\* version is the initial version + n, and no two successful updates report
\* the same version.
C23_VersionCountsUpdates ==
    /\ \A k \in 1..Len(puts) : puts[k] = InitialVersion + k
    /\ Len(puts) > 0 => flagRecord.version = InitialVersion + Len(puts)
    /\ \A i, j \in Updated : i # j => inv[i].version # inv[j].version

\* What does hold: every update stores the version it read, plus one.
UpdateStoresReadVersionPlusOne ==
    \A i \in 1..Len(inv) :
        inv[i].pc \in {"audit", "done"} /\ inv[i].kind = "valid"
            => inv[i].version = (IF inv[i].currentConfig.exists
                                 THEN inv[i].currentConfig.version ELSE 0) + 1

-----------------------------------------------------------------------------
(* The stream handler *)

MaxRecords == 3    \* longest batch of change records

USER_ID_PARTITION == "userid"

\* unmarshall(image): the plain value of a wire-encoded attribute.
unmarshall(w) ==
    CASE w.tag = "S" -> Str(w.s)
      [] w.tag = "N" -> Num(StringToNumber(w.s))
      [] OTHER -> Null

NoImage == [present |-> FALSE, title |-> Wire("NULL", "true", <<>>)]
Image(title) == [present |-> TRUE, title |-> Wire("S", title, <<>>)]

\* A change record: INSERT and MODIFY carry a NewImage, REMOVE does not.
ChangeRecord(eventName, pk, sk) ==
    [eventName |-> eventName,
     Keys |-> [pk |-> Wire("S", pk, <<>>), sk |-> Wire("S", sk, <<>>)],
     NewImage |-> CASE eventName = "INSERT" -> Image("inserted")
                    [] eventName = "MODIFY" -> Image("modified")
                    [] OTHER -> NoImage]

StreamKeys == {<<USER_ID_PARTITION, "1">>, <<"a", "1">>, <<"a", "2">>}

ChangeRecords ==
    { ChangeRecord(e, k[1], k[2]) : e \in {"INSERT", "MODIFY", "REMOVE"}, k \in StreamKeys }

\* `${Keys.pk.S}#${Keys.sk.S}`
openSearchId(record) == record.Keys.pk.s \o "#" \o record.Keys.sk.s

\* { ...unmarshall(newImage), id }
UpsertDoc(record) == [id |-> openSearchId(record), title |-> unmarshall(record.NewImage.title)]

\* { id }
DeleteDoc(record) == [id |-> openSearchId(record)]

auditImage(record) ==
    [pk |-> Wire("S", "system", <<>>), gsipk |-> record.Keys.pk, gsisk |-> record.Keys.sk,
     operation |-> Wire("S", record.eventName, <<>>)]

\* The index after one upsert / after the upserts of a bulk request, in order.
Upsert(ix, doc) == {d \in ix : d.id # doc.id} \cup {doc}

RECURSIVE bulkUpsert(_, _)
bulkUpsert(ix, docs) ==
    IF Len(docs) = 0 THEN ix ELSE bulkUpsert(Upsert(ix, Head(docs)), Tail(docs))

\* The index after a bulk delete of the documents named.
bulkDelete(ix, docs) == {d \in ix : \A i \in 1..Len(docs) : docs[i].id # d.id}

\* One iteration of for (const record of event.Records)
StreamRecordStep ==
    /\ spc = "loop"
    /\ rIdx <= Len(Records)
    /\ LET record == Records[rIdx]
       IN  IF record.Keys.pk.s = USER_ID_PARTITION
           THEN UNCHANGED <<upsertDocs, deleteDocs, auditRecordsToCreate>>
           ELSE /\ CASE record.eventName \in {"MODIFY", "INSERT"} ->
                          /\ upsertDocs' = Append(upsertDocs, UpsertDoc(record))
                          /\ UNCHANGED deleteDocs
                       [] record.eventName = "REMOVE" ->
                          /\ deleteDocs' = Append(deleteDocs, DeleteDoc(record))
                          /\ UNCHANGED upsertDocs
                       [] OTHER -> UNCHANGED <<upsertDocs, deleteDocs>>
                /\ auditRecordsToCreate' = Append(auditRecordsToCreate, auditImage(record))
    /\ rIdx' = rIdx + 1
    /\ UNCHANGED <<Records, index, index0, auditTable, spc, handlerVars, flagVars>>

\* await bulkWriteDocuments(deleteDocs, OPENSEARCH_MAIN_INDEX, 'delete')
StreamBulkDelete ==
    /\ spc = "loop"
    /\ rIdx > Len(Records)
    /\ index' = bulkDelete(index, deleteDocs)
    /\ spc' = "upsert"
    /\ UNCHANGED <<Records, rIdx, upsertDocs, deleteDocs, auditRecordsToCreate,
                   index0, auditTable, handlerVars, flagVars>>

\* await bulkWriteDocuments(upsertDocs, OPENSEARCH_MAIN_INDEX)
StreamBulkUpsert ==
    /\ spc = "upsert"
    /\ index' = bulkUpsert(index, upsertDocs)
    /\ spc' = "audit"
    /\ UNCHANGED <<Records, rIdx, upsertDocs, deleteDocs, auditRecordsToCreate,
                   index0, auditTable, handlerVars, flagVars>>

\* await batchWriteData(auditRecordsToCreate, 25, AUDIT_TABLE_NAME)
StreamAuditWrite ==
    /\ spc = "audit"
    /\ auditTable' = auditTable \o auditRecordsToCreate
    /\ spc' = "done"
    /\ UNCHANGED <<Records, rIdx, upsertDocs, deleteDocs, auditRecordsToCreate,
                   index, index0, handlerVars, flagVars>>

NextStream ==
    \/ StreamRecordStep
    \/ StreamBulkDelete
    \/ StreamBulkUpsert
    \/ StreamAuditWrite

\* The documents the index may hold before the invocation.
InitialDocs == { [id |-> "a#1", title |-> Str("old")], [id |-> "a#2", title |-> Str("old")] }

InitStream ==
    /\ Records \in UNION { [1..n -> ChangeRecords] : n \in 0..MaxRecords }
    /\ rIdx = 1
    /\ upsertDocs = <<>>
    /\ deleteDocs = <<>>
    /\ auditRecordsToCreate = <<>>
    /\ index \in SUBSET InitialDocs
    /\ index0 = index
    /\ auditTable = <<>>
    /\ spc = "loop"
    /\ HandlerIdle /\ FlagsIdle

SpecStream == InitStream /\ [][NextStream]_vars

-----------------------------------------------------------------------------
(* C24 *)

\* The ids of the batch outside the user-id partition, and for each the
\* position of the last record about it.
BatchIds ==
    { openSearchId(Records[i]) : i \in {j \in 1..Len(Records) :
                                          Records[j].Keys.pk.s # USER_ID_PARTITION} }

LastRecordOf(id) ==
    Records[CHOOSE i \in 1..Len(Records) :
                /\ openSearchId(Records[i]) = id
                /\ \A j \in 1..Len(Records) : openSearchId(Records[j]) = id => j <= i]

InIndex(id) == \E d \in index : d.id = id

\* C24: once the handler has processed the batch, for every key of the batch
\* outside the user-id partition the document pk#sk is in the search index if
\* the last record for that key is an INSERT or a MODIFY and is not in it if
\* the last record is a REMOVE, whatever the order of the records.
C24_IndexReflectsLastRecord ==
    spc = "done"
        => \A id \in BatchIds :
              InIndex(id) <=> LastRecordOf(id).eventName \in {"INSERT", "MODIFY"}

\* An INSERT or MODIFY of a key is followed, later in the batch, by a REMOVE
\* of the same key.
RemovedAfterUpsert(id) ==
    \E i, j \in 1..Len(Records) :
        /\ i < j
        /\ openSearchId(Records[i]) = id /\ Records[i].eventName \in {"INSERT", "MODIFY"}
        /\ openSearchId(Records[j]) = id /\ Records[j].eventName = "REMOVE"

\* What does hold: the index reflects the last record of every key that is
\* not removed after an upsert in the same batch; a key that is, and that is
\* upserted at all, stays in the index; keys outside the batch and keys of the
\* user-id partition are left as they were.
IndexReflectsLastRecordUnlessRemovedAfterUpsert ==
    spc = "done"
        => /\ \A id \in BatchIds :
                 IF RemovedAfterUpsert(id)
                 THEN InIndex(id)
                 ELSE InIndex(id) <=> LastRecordOf(id).eventName \in {"INSERT", "MODIFY"}
           /\ \A d \in index0 : d.id \notin BatchIds => d \in index
           /\ \A d \in index : d.id \notin BatchIds => d \in index0

====
